---- MODULE Spec2Model ----
(***************************************************************************)
(* Model of ae/match_datasets.py: prepare_datasets (dataset loading,       *)
(* standardization fit, optional transform, block weighting) and the       *)
(* __main__ script (seeding, neighbor index, sampling, visualization       *)
(* loop).                                                                  *)
(*                                                                         *)
(* Conventions.  Python indices are 0-based; sequences here are 1-based,   *)
(* so Python row i is row i+1 and column slice [a, b) is columns a+1..b.   *)
(* A number held in a dataset is the exact real  num / (den * sqrt(rad)),  *)
(* kept as a record so that standardization is computed exactly.          *)
(***************************************************************************)
EXTENDS Integers, Sequences, FiniteSets, TLC

VARIABLES
    folders,        \* args.folder / the folders argument: one record per folder on disk
    ae_mask,        \* TRUE iff a mask encoder is supplied (ae_mask is not None)
    normalize,      \* prepare_datasets' normalize argument
    weights,        \* [ae, mask, cte]: weight_autoencoder, weight_ae_mask, weight_cte
    seed,           \* args.seed
    n_samples,      \* args.n_samples
    pc,             \* position of the run
    err,            \* the exception that ended the run ("" while none)
    rng,            \* process-wide numpy RNG state
    datasets,       \* prepare_datasets' local list of datasets
    names,          \* prepare_datasets' local list of name lists
    normalizer,     \* the fitted StandardScaler ([n |-> 0, ...] before the fit)
    scaled,         \* number of datasets the loop of lines 47-55 has processed
    ret,            \* what prepare_datasets returned ([ok |-> FALSE, ...] before)
    knn,            \* the rows the NearestNeighbors index was fitted on
    knn_fitted,     \* TRUE once line 79 has run
    random_samples, \* the sampled row indices of the other dataset
    idx,            \* loop counter of the visualization loop (rows built so far)
    image_grid,     \* composite rows accumulated since the last clear
    shown,          \* every grid handed to cv2.imshow, in order
    k               \* last key read by cv2.waitKey(0) & 0xFF (-1 before any)

vars == <<folders, ae_mask, normalize, weights, seed, n_samples, pc, err, rng,
          datasets, names, normalizer, scaled, ret, knn, knn_fitted,
          random_samples, idx, image_grid, shown, k>>

inputs == <<folders, ae_mask, normalize, weights, seed, n_samples>>
prepVars == <<datasets, names, normalizer, scaled>>
mainVars == <<knn, knn_fitted, random_samples, idx, image_grid, shown, k>>

----------------------------------------------------------------------------
(* Bounds of the model *)

MaxFolders == 3      \* most folders given on the command line
MaxRefRows == 2      \* most records in a folder that is not the queried one
MaxRows == 11        \* most records in the second (queried) folder
ZSize == 2           \* autoencoder.z_size
MaskZSize == 1       \* ae_mask.z_size

Variants == {0, 1}                    \* two different contents a folder may have
WeightChoices == { [ae |-> 1, mask |-> 1, cte |-> 10],
                   [ae |-> 2, mask |-> 3, cte |-> 5] }
SeedChoices == {0, 1}
EntropyChoices == {2, 7}              \* RNG state the process may start with
SampleChoices == {-1, 0, 3, 5, 7, 10, 20}
KeyCodes == {27, 32, 283}             \* raw cv2.waitKey results (283 = 256 + 27)

----------------------------------------------------------------------------
(* Arithmetic helpers *)

Min(a, b) == IF a <= b THEN a ELSE b
Max(a, b) == IF a >= b THEN a ELSE b

RECURSIVE SumSeq(_)
SumSeq(s) == IF s = <<>> THEN 0 ELSE Head(s) + SumSeq(Tail(s))

\* An unscaled number x, as stored by np.zeros / assignment.
Val(x) == [num |-> x, den |-> 1, rad |-> 1]

----------------------------------------------------------------------------
(* The disk: infos.pkl and the images of a folder *)

\* Key of the i-th record of infos in iteration order (keys are unique).
NameAt(size, variant, i) == IF variant = 0 THEN i ELSE size + 1 - i

\* info["cte"] of the record with key name.
CteOf(variant, name) == IF variant = 0 THEN name % 3 ELSE (2 * name + 1) % 4

\* Content of <folder>/<name>.jpg as cv2.imread returns it.
ImageOf(variant, name) == IF variant = 0 THEN (2 * name) % 5 ELSE (name + 3) % 5

FolderContent(size, variant) ==
    [ size |-> size, variant |-> variant,
      infos |-> [i \in 1..size |->
                   [name |-> NameAt(size, variant, i),
                    cte |-> CteOf(variant, NameAt(size, variant, i))]] ]

\* What can go wrong while a folder of the given size is loaded:
\* infos.pkl missing, the image of record `at` missing, the encoder
\* failing on record `at`.
Faults(size) ==
    { [kind |-> "ok", at |-> 0], [kind |-> "nometa", at |-> 0] }
    \cup { [kind |-> kd, at |-> i] : kd \in {"noimage", "encoder"}, i \in 1..size }

----------------------------------------------------------------------------
(* Encoders (ae.autoencoder) *)

\* autoencoder.encode_from_raw_image(image).flatten(): ZSize numbers.
AeEncode(image) == [c \in 1..ZSize |-> 3 * image + c]

\* ae_mask.encode_from_raw_image(image).flatten(): MaskZSize numbers.
MaskEncode(image) == [c \in 1..MaskZSize |-> 7 * image + 20 + c]

\* maybe_mask_encoder
MaybeMask(mask) == IF mask THEN MaskZSize ELSE 0

\* Number of columns of a dataset.
Width(mask) == ZSize + MaybeMask(mask) + 1

----------------------------------------------------------------------------
(* prepare_datasets, lines 31-40: one row of a dataset *)

\* Faulty variant: the cte written to the first column, the latents after it.
BuildRowSwapped(f, name, mask) ==
    [c \in 1..Width(mask) |->
        IF c = 1 THEN Val(CteOf(f.variant, name))
        ELSE IF c <= 1 + ZSize
             THEN Val(AeEncode(ImageOf(f.variant, name))[c - 1])
             ELSE Val(MaskEncode(ImageOf(f.variant, name))[c - 1 - ZSize])]

\* Lines 33-40: encoder latent, mask latent if any, cte in the last column.
BuildRow(f, name, mask) ==
    [c \in 1..Width(mask) |->
        IF c <= ZSize
        THEN Val(AeEncode(ImageOf(f.variant, name))[c])
        ELSE IF c < Width(mask)
             THEN Val(MaskEncode(ImageOf(f.variant, name))[c - ZSize])
             ELSE Val(CteOf(f.variant, name))]

\* Faulty variant: rows filled in sorted key order, not in iteration order.
BuildDatasetByKeyOrder(f, mask) ==
    [i \in 1..f.size |-> BuildRow(f, i, mask)]

\* The inner loop of lines 32-40 over infos.items().
BuildDataset(f, mask) ==
    [i \in 1..f.size |-> BuildRow(f, f.infos[i].name, mask)]

\* list(infos.keys())
KeysOf(f) == [i \in 1..f.size |-> f.infos[i].name]

----------------------------------------------------------------------------
(* StandardScaler *)

NoNormalizer == [n |-> 0, sum |-> <<>>, ssq |-> <<>>]

\* StandardScaler().fit(rows): per column the count, the sum and the sum
\* of squares, from which the mean is sum/n and the variance
\* (n*ssq - sum^2)/n^2.  rows hold unscaled numbers.
FitOn(rows) ==
    [ n |-> Len(rows),
      sum |-> [c \in 1..Len(rows[1]) |->
                 SumSeq([i \in 1..Len(rows) |-> rows[i][c].num])],
      ssq |-> [c \in 1..Len(rows[1]) |->
                 SumSeq([i \in 1..Len(rows) |-> rows[i][c].num * rows[i][c].num])] ]

\* Faulty variant: the scaler fitted on the last dataset.
FitSourceLast(ds) == ds[Len(ds)]

\* The dataset line 46 fits the scaler on.
FitSource(ds) == ds[1]

\* normalizer.transform on one number x of column c: (x - mean) / std,
\* with std replaced by 1 when the variance is 0.
\*   (x - sum/n) / (sqrt(n*ssq - sum^2) / n) = (n*x - sum) / sqrt(n*ssq - sum^2)
TransformVal(nz, c, x) ==
    LET d == nz.n * nz.ssq[c] - nz.sum[c] * nz.sum[c]
    IN  IF d = 0
        THEN [num |-> nz.n * x.num - nz.sum[c], den |-> nz.n, rad |-> 1]
        ELSE [num |-> nz.n * x.num - nz.sum[c], den |-> 1, rad |-> d]

TransformRows(nz, rows) ==
    [i \in 1..Len(rows) |-> [c \in 1..Len(rows[i]) |-> TransformVal(nz, c, rows[i][c])]]

----------------------------------------------------------------------------
(* prepare_datasets, lines 51-55: block weights *)

\* The weight lines 51-55 multiply column c by.
WeightOf(w, mask, c) ==
    IF c <= ZSize THEN w.ae
    ELSE IF c < Width(mask) THEN w.mask
    ELSE w.cte

Times(x, m) == [x EXCEPT !.num = @ * m]

WeightRows(w, mask, rows) ==
    [i \in 1..Len(rows) |->
        [c \in 1..Len(rows[i]) |-> Times(rows[i][c], WeightOf(w, mask, c))]]

\* Faulty variant: the transform applied whatever the normalize flag.
ScaleRowsAlwaysNormalize(nz, norm, w, mask, rows) ==
    WeightRows(w, mask, TransformRows(nz, rows))

\* Lines 48-55 for one dataset.
ScaleRows(nz, norm, w, mask, rows) ==
    WeightRows(w, mask, IF norm THEN TransformRows(nz, rows) ELSE rows)

----------------------------------------------------------------------------
(* prepare_datasets as a state machine *)

NoReturn == [ok |-> FALSE, datasets |-> <<>>, names |-> <<>>]

\* encode_from_raw_image raises when handed None (cv2.imread's result for a
\* missing file) or when the encoder itself fails.
EncoderRaises(imageIsNone, encoderFails) == imageIsNone \/ encoderFails

\* The exception that leaves lines 26-40 under the given fault ("" if none).
LoadError(fault) ==
    IF fault.kind = "nometa" THEN "FileNotFoundError"
    ELSE IF EncoderRaises(fault.kind = "noimage", fault.kind = "encoder")
         THEN (IF fault.kind = "noimage" THEN "EncoderErrorOnNone" ELSE "EncoderError")
         ELSE ""

\* Faulty variant: a folder that cannot be loaded is recorded as empty and
\* the loop goes on.
LoadFolderSkipBad ==
    /\ pc = "load"
    /\ Len(datasets) < Len(folders)
    /\ LET f == folders[Len(datasets) + 1] IN
       \E fault \in Faults(f.size) :
          IF LoadError(fault) = ""
          THEN /\ datasets' = Append(datasets, BuildDataset(f, ae_mask))
               /\ names' = Append(names, KeysOf(f))
               /\ UNCHANGED <<pc, err>>
          ELSE /\ err' = LoadError(fault)
               /\ datasets' = Append(datasets, <<>>)
               /\ names' = Append(names, <<>>)
               /\ UNCHANGED pc
    /\ UNCHANGED <<inputs, rng, normalizer, scaled, ret, mainVars>>

\* Lines 25-43 for the next folder: open infos.pkl, build the dataset,
\* append.  An exception propagates out of prepare_datasets: nothing is
\* returned and the caller's assignment of line 76 never happens.
LoadFolder ==
    /\ pc = "load"
    /\ Len(datasets) < Len(folders)
    /\ LET f == folders[Len(datasets) + 1] IN
       \E fault \in Faults(f.size) :
          IF LoadError(fault) = ""
          THEN /\ datasets' = Append(datasets, BuildDataset(f, ae_mask))
               /\ names' = Append(names, KeysOf(f))
               /\ UNCHANGED <<pc, err>>
          ELSE /\ pc' = "aborted"
               /\ err' = LoadError(fault)
               /\ UNCHANGED <<datasets, names>>
    /\ UNCHANGED <<inputs, rng, normalizer, scaled, ret, mainVars>>

\* Line 46: StandardScaler().fit(datasets[0]); a dataset with no rows is
\* rejected by the scaler.
FitNormalizer ==
    /\ pc = "load"
    /\ Len(datasets) = Len(folders)
    /\ IF Len(FitSource(datasets)) = 0
       THEN /\ pc' = "aborted"
            /\ err' = "ValueError"
            /\ UNCHANGED normalizer
       ELSE /\ pc' = "scale"
            /\ normalizer' = FitOn(FitSource(datasets))
            /\ UNCHANGED err
    /\ UNCHANGED <<inputs, rng, datasets, names, scaled, ret, mainVars>>

\* Lines 47-55, one iteration of the loop.
ScaleDataset ==
    /\ pc = "scale"
    /\ scaled < Len(datasets)
    /\ datasets' = [datasets EXCEPT ![scaled + 1] =
                       ScaleRows(normalizer, normalize, weights, ae_mask, @)]
    /\ scaled' = scaled + 1
    /\ UNCHANGED <<inputs, pc, err, rng, names, normalizer, ret, mainVars>>

\* Line 56.
Return ==
    /\ pc = "scale"
    /\ scaled = Len(datasets)
    /\ ret' = [ok |-> TRUE, datasets |-> datasets, names |-> names]
    /\ pc' = "returned"
    /\ UNCHANGED <<inputs, err, rng, prepVars, mainVars>>

PrepNext == LoadFolder \/ FitNormalizer \/ ScaleDataset \/ Return

\* Folder lists a caller may pass: the first two folders hold any number
\* of records up to MaxRefRows, further folders hold MaxRefRows records;
\* every folder has either content.
FolderLists(n) ==
    { fl \in [1..n -> { FolderContent(s, v) : s \in 0..MaxRefRows, v \in Variants }] :
         \A j \in 3..n : fl[j].size = MaxRefRows }

\* A direct call of prepare_datasets with arbitrary arguments.
PrepInit ==
    /\ folders \in UNION { FolderLists(n) : n \in 1..MaxFolders }
    /\ ae_mask \in BOOLEAN
    /\ normalize \in BOOLEAN
    /\ weights \in WeightChoices
    /\ seed = 0
    /\ n_samples = 0
    /\ pc = "load"
    /\ err = ""
    /\ rng = 0
    /\ datasets = <<>>
    /\ names = <<>>
    /\ normalizer = NoNormalizer
    /\ scaled = 0
    /\ ret = NoReturn
    /\ knn = <<>>
    /\ knn_fitted = FALSE
    /\ random_samples = <<>>
    /\ idx = 0
    /\ image_grid = <<>>
    /\ shown = <<>>
    /\ k = -1

PrepSpec == PrepInit /\ [][PrepNext]_vars

----------------------------------------------------------------------------
(* numpy's global random generator *)

\* Faulty variant: the generator is left in the state the process started in.
NpSeedKeepState(s, cur) == cur

\* np.random.seed(s): the state is a function of s alone.
NpSeed(s, cur) == (7 * s + 1) % 101

\* One draw advances the state.
Draw(s) == (37 * s + 11) % 101

RECURSIVE Shuffle(_, _, _)
Shuffle(p, s, i) ==
    IF i <= 1 THEN [perm |-> p, state |-> s]
    ELSE LET s2 == Draw(s)
             j == (s2 % i) + 1
         IN  Shuffle([p EXCEPT ![i] = p[j], ![j] = p[i]], s2, i - 1)

\* np.random.permutation(n): a shuffle of the n row indices driven by the
\* generator state; returns the permutation and the state left behind.
Permutation(s, n) == Shuffle([i \in 1..n |-> i], s, n)

\* Python's seq[:n].
TakePrefix(s, n) ==
    IF n >= 0 THEN SubSeq(s, 1, Min(n, Len(s)))
    ELSE SubSeq(s, 1, Max(Len(s) + n, 0))

----------------------------------------------------------------------------
(* NearestNeighbors(n_neighbors=2) *)

NNeighbors == 2

\* Squared Euclidean distance of two unscaled-or-weighted rows (main never
\* normalizes, so every number has den = rad = 1).
Dist2(a, b) ==
    SumSeq([c \in 1..Len(a) |-> (a[c].num - b[c].num) * (a[c].num - b[c].num)])

\* The row of `rows` closest to q among those not in `skip` (lowest index
\* on a tie).
Closest(rows, q, skip) ==
    CHOOSE i \in (1..Len(rows)) \ skip :
        \A j \in (1..Len(rows)) \ skip :
            \/ Dist2(rows[i], q) < Dist2(rows[j], q)
            \/ (Dist2(rows[i], q) = Dist2(rows[j], q) /\ i <= j)

\* knn.kneighbors([q])[1].flatten(): the indices of the two closest rows.
KNeighbors(rows, q) ==
    LET n1 == Closest(rows, q, {}) IN <<n1, Closest(rows, q, {n1})>>

----------------------------------------------------------------------------
(* The __main__ script *)

\* cv2.imread(str(Path(args.folder[j]) / f"{name}.jpg")): which file was
\* read and its content.
Imread(j, name) ==
    [folder |-> j, name |-> name, pixels |-> ImageOf(folders[j].variant, name)]

\* Index (1-based) in args.folder / datasets / names of the reference and of
\* the queried folder.
RefIndex == 1
OtherIndex == 2

\* Lines 67-76 up to the call: parse the arguments, seed numpy, load the
\* encoders, call prepare_datasets.
SeedAndLoad ==
    /\ pc = "start"
    /\ rng' = NpSeed(seed, rng)
    /\ pc' = "load"
    /\ UNCHANGED <<inputs, err, prepVars, ret, mainVars>>

\* Line 79.
FitKnn ==
    /\ pc = "returned"
    /\ knn' = ret.datasets[RefIndex]
    /\ knn_fitted' = TRUE
    /\ pc' = "sample"
    /\ UNCHANGED <<inputs, err, rng, prepVars, ret, random_samples, idx,
                   image_grid, shown, k>>

\* Lines 81-83: datasets[1] raises IndexError when a single folder was given.
Sample ==
    /\ pc = "sample"
    /\ IF Len(ret.datasets) < OtherIndex
       THEN /\ pc' = "aborted"
            /\ err' = "IndexError"
            /\ UNCHANGED <<rng, random_samples>>
       ELSE LET p == Permutation(rng, Len(ret.datasets[OtherIndex])) IN
            /\ random_samples' = TakePrefix(p.perm, n_samples)
            /\ rng' = p.state
            /\ pc' = "loop"
            /\ UNCHANGED err
    /\ UNCHANGED <<inputs, prepVars, ret, knn, knn_fitted, idx, image_grid, shown, k>>

\* The composite row of lines 86-97 for one sampled row of the other dataset.
CompositeRow(sample) ==
    LET nb == KNeighbors(knn, ret.datasets[OtherIndex][sample])
    IN  [ sample |-> sample,
          images |-> <<Imread(OtherIndex, ret.names[OtherIndex][sample]),
                       Imread(RefIndex, ret.names[RefIndex][nb[1]]),
                       Imread(RefIndex, ret.names[RefIndex][nb[2]])>> ]

\* Line 99: whether the grid is rendered after the row with 0-based index
\* idx0 has been appended.
RenderDue(idx0) == (idx0 + 1) % 5 = 0

\* Faulty variant: the grid is not cleared.
GridAfterKeyKept(grid) == grid

\* Line 107 after a key other than escape.
GridAfterKey(grid) == <<>>

\* Faulty variant: no key ends the loop.
IsEscapeNever(key) == FALSE

\* Lines 103-105: whether the key read ends the loop.
IsEscape(key) == key = 27

\* Lines 84-101: one iteration up to the blocking wait.  kneighbors raises
\* when the index holds fewer rows than n_neighbors.
Iterate ==
    /\ pc = "loop"
    /\ idx < Len(random_samples)
    /\ IF Len(knn) < NNeighbors
       THEN /\ pc' = "aborted"
            /\ err' = "ValueError"
            /\ UNCHANGED <<idx, image_grid, shown>>
       ELSE /\ image_grid' = Append(image_grid, CompositeRow(random_samples[idx + 1]))
            /\ idx' = idx + 1
            /\ IF RenderDue(idx)
               THEN /\ shown' = Append(shown, image_grid')
                    /\ pc' = "waitKey"
               ELSE UNCHANGED <<shown, pc>>
            /\ UNCHANGED err
    /\ UNCHANGED <<inputs, rng, prepVars, ret, knn, knn_fitted, random_samples, k>>

\* Lines 103-107: the blocking wait returns a key.
WaitKey ==
    /\ pc = "waitKey"
    /\ \E raw \in KeyCodes :
          /\ k' = raw % 256
          /\ IF IsEscape(k')
             THEN /\ pc' = "done"
                  /\ UNCHANGED image_grid
             ELSE /\ pc' = "loop"
                  /\ image_grid' = GridAfterKey(image_grid)
    /\ UNCHANGED <<inputs, err, rng, prepVars, ret, knn, knn_fitted,
                   random_samples, idx, shown>>

\* The for loop of line 84 is exhausted: the script ends.
Finish ==
    /\ pc = "loop"
    /\ idx = Len(random_samples)
    /\ pc' = "done"
    /\ UNCHANGED <<inputs, err, rng, prepVars, ret, mainVars>>

Next ==
    \/ SeedAndLoad
    \/ LoadFolder
    \/ FitNormalizer
    \/ ScaleDataset
    \/ Return
    \/ FitKnn
    \/ Sample
    \/ Iterate
    \/ WaitKey
    \/ Finish

\* args.folder: the reference folder, the queried folder, further folders.
MainFolders(n, s1, s2) ==
    [j \in 1..n |-> IF j = 1 THEN FolderContent(s1, 0)
                    ELSE IF j = 2 THEN FolderContent(s2, 1)
                    ELSE FolderContent(1, 0)]

\* The process starts: arguments parsed, nothing loaded.  prepare_datasets
\* is called with its default normalize and latent weights.
Init ==
    /\ \E n \in 1..MaxFolders, s1 \in 0..MaxRefRows, s2 \in 0..MaxRows :
          folders = MainFolders(n, s1, s2)
    /\ ae_mask \in BOOLEAN
    /\ normalize = FALSE
    /\ weights = [ae |-> 1, mask |-> 1, cte |-> 10]
    /\ seed \in SeedChoices
    /\ n_samples \in SampleChoices
    /\ pc = "start"
    /\ err = ""
    /\ rng \in EntropyChoices
    /\ datasets = <<>>
    /\ names = <<>>
    /\ normalizer = NoNormalizer
    /\ scaled = 0
    /\ ret = NoReturn
    /\ knn = <<>>
    /\ knn_fitted = FALSE
    /\ random_samples = <<>>
    /\ idx = 0
    /\ image_grid = <<>>
    /\ shown = <<>>
    /\ k = -1

Spec == Init /\ [][Next]_vars

----------------------------------------------------------------------------
(* What the disk holds, read directly: the reference the properties compare *)
(* the program's state with                                                *)

\* The unscaled number that belongs in column c of the row of the sample
\* `name` of folder j: encoder latent, then mask latent, then cte.
RawCell(j, name, c) ==
    LET v == folders[j].variant IN
    IF c <= ZSize THEN AeEncode(ImageOf(v, name))[c]
    ELSE IF c = ZSize + MaybeMask(ae_mask) + 1 THEN CteOf(v, name)
    ELSE MaskEncode(ImageOf(v, name))[c - ZSize]

\* The weight of the block column c lies in.
BlockWeight(c) ==
    IF c <= ZSize THEN weights.ae
    ELSE IF c = ZSize + MaybeMask(ae_mask) + 1 THEN weights.cte
    ELSE weights.mask

\* The unscaled rows of the first folder, in metadata order.
FirstFolderRaw ==
    [i \in 1..Len(folders[1].infos) |->
        [c \in 1..(ZSize + MaybeMask(ae_mask) + 1) |->
            Val(RawCell(1, folders[1].infos[i].name, c))]]

\* The number expected in a returned dataset for an unscaled number x of
\* column c: standardized with the first folder's statistics when
\* normalization is on, then multiplied by the block weight.
ExpectedCell(c, x) ==
    LET s == IF normalize THEN TransformVal(FitOn(FirstFolderRaw), c, Val(x))
             ELSE Val(x)
    IN  [s EXCEPT !.num = @ * BlockWeight(c)]

Returned == ret.ok

----------------------------------------------------------------------------
(* C1 *)

\* C1: for every folder processed by prepare_datasets, the returned dataset
\* has as many rows as the folder's metadata has records, names[j] lists
\* the metadata keys in iteration order, and row i is built from the image
\* and cte of the record whose key is names[j][i]; the same alignment
\* holds of the datasets while they are being loaded.
C1_RowsAlignWithNames ==
    /\ pc = "load" =>
          \A j \in 1..Len(datasets) :
             /\ Len(datasets[j]) = Len(folders[j].infos)
             /\ Len(names[j]) = Len(folders[j].infos)
             /\ \A i \in 1..Len(datasets[j]) :
                   /\ names[j][i] = folders[j].infos[i].name
                   /\ \A c \in 1..Len(datasets[j][i]) :
                         datasets[j][i][c] = Val(RawCell(j, names[j][i], c))
    /\ Returned =>
          /\ Len(ret.datasets) = Len(folders)
          /\ Len(ret.names) = Len(folders)
          /\ \A j \in 1..Len(folders) :
                /\ Len(ret.datasets[j]) = Len(folders[j].infos)
                /\ Len(ret.names[j]) = Len(folders[j].infos)
                /\ \A i \in 1..Len(ret.datasets[j]) :
                      /\ ret.names[j][i] = folders[j].infos[i].name
                      /\ \A c \in 1..Len(ret.datasets[j][i]) :
                            ret.datasets[j][i][c] =
                               ExpectedCell(c, RawCell(j, ret.names[j][i], c))

\* A call returned three folders, one of them with two records whose keys
\* are not in ascending order.
C1_Witness ==
    /\ Returned
    /\ Len(ret.datasets) = 3
    /\ \E j \in 1..3 : Len(ret.names[j]) = 2 /\ ret.names[j][1] > ret.names[j][2]

----------------------------------------------------------------------------
(* C2 *)

\* The cell of column c of a row at a given stage: unscaled before the
\* loop of lines 47-55 reaches the dataset, scaled afterwards.
LayoutHolds(rows, j, done) ==
    \A i \in 1..Len(rows) :
       /\ Len(rows[i]) = ZSize + (IF ae_mask THEN MaskZSize ELSE 0) + 1
       /\ \A c \in 1..ZSize :
             rows[i][c] =
                (IF done THEN ExpectedCell(c, AeEncode(ImageOf(folders[j].variant,
                                                   folders[j].infos[i].name))[c])
                 ELSE Val(AeEncode(ImageOf(folders[j].variant,
                                           folders[j].infos[i].name))[c]))
       /\ ae_mask =>
             \A c \in 1..MaskZSize :
                rows[i][ZSize + c] =
                   (IF done THEN ExpectedCell(ZSize + c,
                                    MaskEncode(ImageOf(folders[j].variant,
                                                       folders[j].infos[i].name))[c])
                    ELSE Val(MaskEncode(ImageOf(folders[j].variant,
                                                folders[j].infos[i].name))[c]))
       /\ rows[i][Len(rows[i])] =
             (IF done THEN ExpectedCell(Len(rows[i]),
                              CteOf(folders[j].variant, folders[j].infos[i].name))
              ELSE Val(CteOf(folders[j].variant, folders[j].infos[i].name)))

\* C2: every row of every dataset has length Z1 + Z2 + 1 (Z2 = 0 without a
\* mask encoder), with the encoder latent in the first Z1 columns, the mask
\* latent in the next Z2 and the cte in the last, for any number of folders
\* and samples; the normalization and weighting loop keeps that layout, in
\* the datasets it has processed and in those it has not, and in what is
\* returned.
C2_RowLayout ==
    /\ \A j \in 1..Len(datasets) : LayoutHolds(datasets[j], j, j <= scaled)
    /\ Returned => \A j \in 1..Len(ret.datasets) : LayoutHolds(ret.datasets[j], j, TRUE)

\* A call with a mask encoder returned a dataset of two rows after the
\* loop of lines 47-55 standardized and weighted it.
C2_Witness ==
    /\ Returned
    /\ ae_mask
    /\ normalize
    /\ weights.cte = 5
    /\ \E j \in 1..Len(ret.datasets) :
          /\ Len(ret.datasets[j]) = 2
          /\ Len(ret.datasets[j][1]) = ZSize + MaskZSize + 1

----------------------------------------------------------------------------
(* C3 *)

\* C3: with normalization disabled every returned number is the unscaled
\* loaded number times exactly one weight, once: weight_autoencoder in the
\* encoder-latent columns, weight_ae_mask in the mask-latent columns,
\* weight_cte in the cte column; the fit on the first dataset changes
\* nothing.
C3_WeightsOnly ==
    (Returned /\ ~normalize) =>
       \A j \in 1..Len(ret.datasets) :
          \A i \in 1..Len(ret.datasets[j]) :
             \A c \in 1..Len(ret.datasets[j][i]) :
                LET x == RawCell(j, folders[j].infos[i].name, c)
                    w == IF c <= ZSize THEN weights.ae
                         ELSE IF c < Len(ret.datasets[j][i]) THEN weights.mask
                         ELSE weights.cte
                IN  ret.datasets[j][i][c] = [num |-> x * w, den |-> 1, rad |-> 1]

\* A call without normalization, with a mask encoder and weights other
\* than 1, returned a non-empty first dataset (whose fit was computed).
C3_Witness ==
    /\ Returned
    /\ ~normalize
    /\ ae_mask
    /\ weights.ae = 2
    /\ normalizer.n = 2
    /\ Len(ret.datasets) >= 2
    /\ Len(ret.datasets[2]) = 2

----------------------------------------------------------------------------
(* C4 *)

\* The standardized and weighted form of an unscaled number x of column c
\* under the statistics nz.
StandardizedThenWeighted(nz, c, x) ==
    LET d == nz.n * nz.ssq[c] - nz.sum[c] * nz.sum[c]
    IN  [ num |-> (nz.n * x - nz.sum[c]) * BlockWeight(c),
          den |-> IF d = 0 THEN nz.n ELSE 1,
          rad |-> IF d = 0 THEN 1 ELSE d ]

\* C4: with normalization enabled the statistics are those of the first
\* folder's rows alone (whatever the other folders hold; the fit succeeded,
\* so that folder is not empty), and every
\* returned number, in the first dataset as in the others, is the unscaled
\* number standardized with those statistics and then multiplied by its
\* block weight.
C4_FitOnFirstThenWeight ==
    normalize =>
       /\ pc \in {"scale", "returned"} =>
             /\ Len(folders[1].infos) > 0
             /\ normalizer = FitOn(FirstFolderRaw)
       /\ Returned =>
             \A j \in 1..Len(ret.datasets) :
                \A i \in 1..Len(ret.datasets[j]) :
                   \A c \in 1..Len(ret.datasets[j][i]) :
                      ret.datasets[j][i][c] =
                         StandardizedThenWeighted(
                            FitOn(FirstFolderRaw), c,
                            RawCell(j, folders[j].infos[i].name, c))

\* A normalizing call returned two or more datasets, the last holding other
\* data than the first, with a column of non-zero variance and non-zero
\* mean and a weight other than 1.
C4_Witness ==
    /\ Returned
    /\ normalize
    /\ weights.ae = 2
    /\ Len(ret.datasets) >= 2
    /\ folders[Len(folders)].variant # folders[1].variant
    /\ Len(ret.datasets[Len(folders)]) = 2
    /\ \E c \in 1..ZSize :
          /\ normalizer.sum[c] # 0
          /\ normalizer.n * normalizer.ssq[c] # normalizer.sum[c] * normalizer.sum[c]

----------------------------------------------------------------------------
(* The visualization loop *)

\* The sample indices a displayed or accumulated grid holds, in order.
SamplesOf(grid) == [r \in 1..Len(grid) |-> grid[r].sample]

\* The sample indices shown in some displayed grid.
ShownSamples ==
    UNION { { shown[g][r].sample : r \in 1..Len(shown[g]) } : g \in 1..Len(shown) }

----------------------------------------------------------------------------
(* C5 *)

\* C5: at every blocking key wait, an escape key (27 after masking) ends the
\* loop, and from then on nothing is queried, accumulated or rendered; any
\* other key resumes the loop at the next sampled item with an empty grid,
\* and a render that follows shows the next five sampled items.
C5_EscapeStopsOtherKeysContinue ==
    [][ /\ pc = "waitKey" =>
              IF k' = 27
              THEN pc' = "done" /\ UNCHANGED <<idx, image_grid, shown>>
              ELSE /\ pc' = "loop"
                   /\ idx' = idx
                   /\ image_grid' = <<>>
                   /\ shown' = shown
        /\ k = 27 => UNCHANGED <<pc, idx, image_grid, shown>>
        /\ (pc = "loop" /\ pc' = "waitKey") =>
              /\ shown' = Append(shown, image_grid')
              /\ SamplesOf(image_grid') = SubSeq(random_samples, idx' - 4, idx')
              /\ idx' = 5 * Len(shown')
      ]_vars

\* The first wait got another key and a second batch was rendered; the
\* second wait got escape while sampled items were left.
C5_Witness ==
    /\ pc = "done"
    /\ k = 27
    /\ Len(shown) = 2
    /\ idx < Len(random_samples)

----------------------------------------------------------------------------
(* C6 *)

\* C6: in a run where escape is never pressed, when the script ends
\* normally every composite row built for a sampled item has been rendered
\* in some displayed grid.
C6_AllRowsShownAtExit ==
    (pc = "done" /\ k # 27) =>
       \A i \in 1..Len(random_samples) : random_samples[i] \in ShownSamples

----------------------------------------------------------------------------
(* C7 *)

\* C7: for every invocation with one or more folders, once prepare_datasets
\* has returned and the script has moved past line 81, the run is in the
\* matching stage: the index is fitted on the first folder's dataset, the
\* samples are rows of the second folder's dataset, source images come
\* from the second folder and neighbor images from the first.
C7_MatchingStageReached ==
    (Returned /\ pc \notin {"returned", "sample"}) =>
       /\ Len(folders) >= 1
       /\ err # "IndexError"
       /\ knn = ret.datasets[1]
       /\ Len(ret.datasets) >= 2
       /\ \A i \in 1..Len(random_samples) :
             random_samples[i] \in 1..Len(ret.datasets[2])
       /\ \A r \in 1..Len(image_grid) :
             /\ image_grid[r].images[1].folder = 2
             /\ image_grid[r].images[1].name = ret.names[2][image_grid[r].sample]
             /\ \A n \in 2..3 :
                   /\ image_grid[r].images[n].folder = 1
                   /\ image_grid[r].images[n].name
                         \in { ret.names[1][q] : q \in 1..Len(ret.names[1]) }

----------------------------------------------------------------------------
(* C8 *)

\* The selection a run makes when it starts with generator state e.
SelectionOf(e) ==
    TakePrefix(Permutation(NpSeed(seed, e), Len(ret.datasets[2])).perm, n_samples)

Sampled == pc \in {"loop", "waitKey", "done"}

\* Distinct valid row indices of the second dataset, fixed by the seed.
SelectionIsSeeded ==
    /\ \A e \in 0..100 : random_samples = SelectionOf(e)
    /\ \A i \in 1..Len(random_samples) :
          /\ random_samples[i] \in 1..Len(ret.datasets[2])
          /\ \A j \in 1..Len(random_samples) :
                random_samples[i] = random_samples[j] => i = j

----------------------------------------------------------------------------
(* C9 *)

LoadErrors == {"FileNotFoundError", "EncoderErrorOnNone", "EncoderError"}

----------------------------------------------------------------------------
(* C10 *)

\* C10: the accumulated grid never holds more than five rows; every grid
\* displayed holds exactly the five rows accumulated since the previous
\* render; after a render followed by a key other than escape the grid is
\* empty, so it holds only the rows built since; no row is displayed twice.
C10_GridBatches ==
    /\ Len(image_grid) <= 5
    /\ \A g \in 1..Len(shown) :
          /\ Len(shown[g]) = 5
          /\ SamplesOf(shown[g]) = SubSeq(random_samples, 5 * g - 4, 5 * g)
    /\ pc = "loop" =>
          SamplesOf(image_grid) = SubSeq(random_samples, 5 * Len(shown) + 1, idx)
    /\ pc = "waitKey" => image_grid = shown[Len(shown)]
    /\ \A g, h \in 1..Len(shown) :
          \A r, s \in 1..5 :
             shown[g][r].sample = shown[h][s].sample => (g = h /\ r = s)

\* Two grids were displayed and a row of a third batch is accumulated.
C10_Witness ==
    /\ Len(shown) = 2
    /\ pc = "loop"
    /\ Len(image_grid) = 1

====
